---- MODULE Spec2Model ----
(***************************************************************************)
(* Model of zoom.py: a batch runner that reads a list of user actions,     *)
(* dispatches each to update / delete / listusers, talks to the Zoom REST  *)
(* API and writes one CSV row per action.                                  *)
(*                                                                         *)
(* The remote API is the environment: every request gets either an HTTP    *)
(* response (status code and body) or a transport exception, chosen        *)
(* nondeterministically.                                                   *)
(***************************************************************************)
EXTENDS Integers, Sequences, FiniteSets, TLC

(* ---------------------------- bounds ----------------------------------- *)
\* longest input action list
MaxActions == 2
\* largest page_count the server reports; a listing is followed for at
\* most this many page requests
MaxPages == 2
\* most users on one page
MaxUsers == 1

(* ------------------------- Python values -------------------------------- *)
\* the value False, as returned by findUserId
PyFalse == "<False>"
\* marks a call that raised instead of returning
Raised == "<raise>"
\* Python truthiness of a value that is False or a string
Truthy_emptyString(v) == v # PyFalse

Truthy(v) == v \notin {PyFalse, ""}

(* --------------------------- input file --------------------------------- *)
Fields == {"username", "newusername", "loginDisabled", "givenName", "sn"}

BaseRow ==
    [action |-> "update", username |-> "a", newusername |-> "a",
     loginDisabled |-> "True", givenName |-> "J", sn |-> "T"]

\* row r with the fields of S set to the empty string
Blank(r, S) == [f \in DOMAIN r |-> IF f \in S THEN "" ELSE r[f]]

\* updates with every field present: three values of loginDisabled without
\* a rename, and a rename
FullUpdates ==
    {[BaseRow EXCEPT !.loginDisabled = l] : l \in {"True", "False", "true"}}
    \cup {[BaseRow EXCEPT !.newusername = "b", !.loginDisabled = "False"]}

\* updates with one field missing, and with all of them missing
BlankUpdates ==
    {Blank(BaseRow, {f}) : f \in Fields} \cup {Blank(BaseRow, Fields)}

UserActions ==
    FullUpdates \cup BlankUpdates
    \cup {[BaseRow EXCEPT !.action = "delete"],
          Blank([BaseRow EXCEPT !.action = "delete"], {"username"}),
          [BaseRow EXCEPT !.action = "listusers"],
          [BaseRow EXCEPT !.action = "create"]}

RECURSIVE SeqsUpTo(_, _)
SeqsUpTo(S, n) ==
    IF n = 0 THEN {<<>>}
    ELSE LET shorter == SeqsUpTo(S, n - 1)
         IN  shorter \cup {Append(s, x) : s \in {t \in shorter : Len(t) = n - 1}, x \in S}

(* --------------------------- remote API --------------------------------- *)
Ids == {"u1"}
Domain == "xyz.com"
Upn(username) == username \o "@" \o Domain

NoBody == <<>>
Exc == [kind |-> "exc", status |-> 0, body |-> NoBody]
Http(s, b) == [kind |-> "http", status |-> s, body |-> b]

\* bodies of a 200 answer to a lookup: the JSON object as its sequence
\* of key/value pairs
LookupBodies(upn) ==
    {<< <<"id", i>>, <<"email", upn>> >> : i \in Ids \cup {""}}
    \cup {<< <<"email", upn>>, <<"id", "u1">> >>,
          << <<"id", "u1">>, <<"email", "other@" \o Domain>> >>}

\* answers to a lookup: an exception, 404, a 500 without a body or with the
\* body of a user, and 200 with each of the bodies above
LookupResponses(upn) ==
    {Exc, Http(404, NoBody), Http(500, NoBody),
     Http(500, << <<"id", "u1">>, <<"email", upn>> >>)}
    \cup {Http(200, b) : b \in LookupBodies(upn)}

WriteResponses == {Exc, Http(204, NoBody), Http(404, NoBody)}

User(page, k) ==
    [id |-> "id" \o ToString(page) \o "." \o ToString(k),
     first_name |-> "F", last_name |-> "L", email |-> "e",
     type |-> 1, status |-> "active"]

Unparsable == [parses |-> FALSE]

\* the server's user list: odd pages are full, even pages hold one less
UsersOnPage(page) ==
    [k \in 1..(IF page % 2 = 1 THEN MaxUsers ELSE MaxUsers - 1) |-> User(page, k)]

\* bodies of a 200 answer to a page request: not JSON at all, or a page
\* with any page_count, numbered as requested or as the first page
PageBodies(requested) ==
    {Unparsable} \cup
    {[parses |-> TRUE, page_count |-> c, page_number |-> n,
      users |-> UsersOnPage(n)] :
        c \in 0..MaxPages, n \in {requested, 1}}

PageResponses(requested) ==
    {Exc, Http(500, NoBody)} \cup {Http(200, b) : b \in PageBodies(requested)}

(* ----------------------------- state ------------------------------------ *)
VARIABLES
    actions,      \* reader["useractions"]
    idx,          \* position of the for loop of main in actions
    pc,           \* where control is
    result,       \* the local `result` of main / of the running handler
    id,           \* the local `id` of update / delete
    headers,      \* token held by the local `headers`
    currentPage,  \* local of listusers
    PagesLeft,    \* local of listusers
    response,     \* status code of the local `response`
    rows,         \* data rows written to the output file
    stdout,       \* lines printed by listusers in the running action
    reqs,         \* requests sent in the running action, with their answers
    tokens        \* number of tokens generateToken has produced

vars == <<actions, idx, pc, result, id, headers, currentPage, PagesLeft,
          response, rows, stdout, reqs, tokens>>

locals == <<id, headers, currentPage, PagesLeft, response>>


(* ------------------------- Token Issuer --------------------------------- *)
\* generateToken(): every call signs a new token; tokens are numbered in
\* the order they are produced
generateToken == tokens + 1

\* one entry of the request log
Request(method, url, token, payload, resp) ==
    [method |-> method, url |-> url, token |-> token,
     payload |-> payload, resp |-> resp]

(* ------------------------- User Resolver -------------------------------- *)
\* `upn in data`
BodyContains(body, upn) ==
    \E i \in 1..Len(body) : body[i][1] = upn \/ body[i][2] = upn

\* findUserId without the test of the status code
findUserId_ignoresStatus(upn, resp) ==
    IF resp.kind = "exc" THEN Raised
    ELSE IF ~BodyContains(resp.body, upn) THEN PyFalse
    ELSE IF resp.body[1][1] = "id" THEN resp.body[1][2]
    ELSE PyFalse

\* findUserId taking the id from the second piece of the body
findUserId_secondPiece(upn, resp) ==
    IF resp.kind = "exc" THEN Raised
    ELSE IF resp.status = 200 THEN
        IF ~BodyContains(resp.body, upn) THEN PyFalse
        ELSE IF resp.body[1][1] = "id" THEN resp.body[2][2]
        ELSE PyFalse
    ELSE PyFalse

\* the value findUserId(upn) returns when its GET is answered by resp,
\* or Raised when it leaves by an exception
findUserId(upn, resp) ==
    IF resp.kind = "exc" THEN Raised   \* `return id` with id unassigned
    ELSE IF resp.status = 200 THEN
        IF ~BodyContains(resp.body, upn) THEN PyFalse
        ELSE IF resp.body[1][1] = "id" THEN resp.body[1][2]
        ELSE PyFalse
    ELSE PyFalse

(* --------------------------- results ------------------------------------ *)
MissingValue(item) ==
    "ERROR: Missing an expected input value for " \o item \o " in input file."

row == actions[idx]

\* leave the running handler with result r: main goes on to writerow
Return(r) == /\ result' = r
             /\ pc' = "writerow"

\* an exception reaches main's `except Exception`: the run ends
Propagate == /\ pc' = "aborted"
             /\ UNCHANGED result

(* ------------------------------ main ------------------------------------ *)
Init ==
    /\ actions \in SeqsUpTo(UserActions, MaxActions)
    /\ idx = 1
    /\ pc = "loop"
    /\ result = ""
    /\ id = PyFalse
    /\ headers = 0
    /\ currentPage = 0
    /\ PagesLeft = 0
    /\ response = 0
    /\ rows = <<>>
    /\ stdout = <<>>
    /\ reqs = <<>>
    /\ tokens = 0

\* lines 115-123: the handler the action field selects, "" for none
Handler_unknownLists(action) ==
    IF action \in {"update", "delete"} THEN action ELSE "listusers"

Handler(action) ==
    IF action \in {"update", "delete", "listusers"} THEN action ELSE ""

\* lines 112-126: take the next row and select what needs to be done
Dispatch ==
    /\ pc = "loop"
    /\ idx <= Len(actions)
    /\ id' = PyFalse /\ headers' = 0 /\ response' = 0
    /\ currentPage' = 0 /\ PagesLeft' = 0
    /\ reqs' = <<>> /\ stdout' = <<>>
    /\ IF Handler(row.action) # ""
       THEN result' = "" /\ pc' = Handler(row.action)
       ELSE Return("ERROR: Unrecognized action.")
    /\ UNCHANGED <<actions, idx, rows, tokens>>

\* line 129 with the loop not moving on to the next row
WriteRow_noAdvance ==
    /\ pc = "writerow"
    /\ rows' = Append(rows, <<row.action, row.username, result>>)
    /\ pc' = "loop"
    /\ UNCHANGED <<actions, idx, result, locals, stdout, reqs, tokens>>

\* line 129
WriteRow ==
    /\ pc = "writerow"
    /\ rows' = Append(rows, <<row.action, row.username, result>>)
    /\ idx' = idx + 1
    /\ pc' = "loop"
    /\ UNCHANGED <<actions, result, locals, stdout, reqs, tokens>>

\* the for loop is exhausted: lines 144-150
Finish ==
    /\ pc = "loop"
    /\ idx > Len(actions)
    /\ pc' = "done"
    /\ UNCHANGED <<actions, idx, result, locals, rows, stdout, reqs, tokens>>

(* ----------------------------- delete ----------------------------------- *)
\* lines 270-278
DeleteValidate ==
    /\ pc = "delete"
    /\ IF row.username = ""
       THEN Return(MissingValue("username"))
       ELSE pc' = "delete_resolve" /\ UNCHANGED result
    /\ UNCHANGED <<actions, idx, locals, rows, stdout, reqs, tokens>>

\* lines 280-288
DeleteResolve ==
    /\ pc = "delete_resolve"
    /\ \E resp \in LookupResponses(Upn(row.username)) :
        LET upn == Upn(row.username)
            found == findUserId(upn, resp)
        IN  /\ tokens' = generateToken
            /\ reqs' = Append(reqs, Request("GET", "users/" \o upn,
                                            generateToken, NoBody, resp))
            /\ IF found = Raised THEN Propagate /\ UNCHANGED id
               ELSE /\ id' = found
                    /\ IF ~Truthy(found)
                       THEN Return("ERROR: user could not be found in Zoom!")
                       ELSE pc' = "delete_request" /\ UNCHANGED result
    /\ UNCHANGED <<actions, idx, headers, currentPage, PagesLeft, response,
                   rows, stdout>>

\* lines 300-315 with one message for both ways of failing
DeleteOutcome_oneMessage(resp) ==
    IF resp.kind = "exc" \/ resp.status # 204
    THEN "ERROR: could not delete user in Zoom."
    ELSE "SUCCESS: user deleted in Zoom."

\* lines 300-315: the result of delete, from the answer to its DELETE
DeleteOutcome(resp) ==
    IF resp.kind = "exc" THEN "ERROR: Could not delete Zoom user."
    ELSE IF resp.status # 204 THEN "ERROR: could not delete user in Zoom."
    ELSE "SUCCESS: user deleted in Zoom."

\* lines 290-317
DeleteRequest ==
    /\ pc = "delete_request"
    /\ \E resp \in WriteResponses :
        /\ tokens' = generateToken
        /\ headers' = generateToken
        /\ reqs' = Append(reqs, Request("DELETE", "users/" \o id,
                                        generateToken, NoBody, resp))
        /\ IF resp.kind = "exc"
           THEN UNCHANGED response
           ELSE response' = resp.status
        /\ Return(DeleteOutcome(resp))
    /\ UNCHANGED <<actions, idx, id, currentPage, PagesLeft, rows, stdout>>

(* ----------------------------- update ----------------------------------- *)
\* lines 157-168: the first parameter, in the iteration order of the
\* locals() dictionary, that holds the empty string ends the handler; that
\* order is the interpreter's, so any empty parameter may be the one named
EmptyParams_skipsSn(params) ==
    {item \in Fields \ {"sn"} : params[item] = ""}

EmptyParams(params) == {item \in Fields : params[item] = ""}

UpdateValidate ==
    /\ pc = "update"
    /\ LET empty == EmptyParams(row)
       IN  IF empty # {}
           THEN \E item \in empty : Return(MissingValue(item))
           ELSE pc' = "update_resolve" /\ UNCHANGED result
    /\ UNCHANGED <<actions, idx, locals, rows, stdout, reqs, tokens>>

\* line 182: the rename step is entered only for a different new name
Renames_always(username, newusername) == TRUE

Renames(username, newusername) == username # newusername

\* lines 171-182
UpdateResolve ==
    /\ pc = "update_resolve"
    /\ \E resp \in LookupResponses(Upn(row.username)) :
        LET upn == Upn(row.username)
            found == findUserId(upn, resp)
        IN  /\ tokens' = generateToken
            /\ reqs' = Append(reqs, Request("GET", "users/" \o upn,
                                            generateToken, NoBody, resp))
            /\ IF found = Raised THEN Propagate /\ UNCHANGED id
               ELSE /\ id' = found
                    /\ IF ~Truthy(found)
                       THEN Return("ERROR: user could not be found in Zoom!")
                       ELSE /\ pc' = IF Renames(row.username, row.newusername)
                                     THEN "update_taken" ELSE "update_license"
                            /\ UNCHANGED result
    /\ UNCHANGED <<actions, idx, headers, currentPage, PagesLeft, response,
                   rows, stdout>>

\* lines 223-228: the handler of the exceptions of the rename step
RenameFailed_fallsThrough ==
    /\ result' = "ERROR: Could not rename Zoom user."
    /\ pc' = "update_license"

RenameFailed == Return("ERROR: Could not rename Zoom user.")

\* line 190: the new name is taken when its lookup returns a true value
NameTaken_never(found) == FALSE

NameTaken(found) == Truthy(found)

\* lines 185-196, with the handler of lines 223-228
UpdateTaken ==
    /\ pc = "update_taken"
    /\ \E resp \in LookupResponses(Upn(row.newusername)) :
        LET upnew == Upn(row.newusername)
            found == findUserId(upnew, resp)
        IN  /\ tokens' = generateToken
            /\ reqs' = Append(reqs, Request("GET", "users/" \o upnew,
                                            generateToken, NoBody, resp))
            /\ IF found = Raised
               THEN RenameFailed
               ELSE IF NameTaken(found)
               THEN Return("ERROR: username already taken!")
               ELSE pc' = "update_name" /\ UNCHANGED result
    /\ UNCHANGED <<actions, idx, locals, rows, stdout>>

\* lines 198-206, with the handler of lines 223-228
UpdateName ==
    /\ pc = "update_name"
    /\ \E resp \in WriteResponses :
        /\ tokens' = generateToken
        /\ headers' = generateToken
        /\ reqs' = Append(reqs,
                Request("PATCH", "users/" \o id, generateToken,
                        << <<"first_name", row.givenName>>,
                           <<"last_name", row.sn>> >>, resp))
        /\ IF resp.kind = "exc"
           THEN RenameFailed /\ UNCHANGED response
           ELSE /\ response' = resp.status
                /\ pc' = "update_email"
                /\ UNCHANGED result
    /\ UNCHANGED <<actions, idx, id, currentPage, PagesLeft, rows, stdout>>

\* lines 211-220 with a return after the error of line 215
RenameChecked_returnsError(status) ==
    IF status # 204
    THEN Return("ERROR: could not rename Zoom user.")
    ELSE /\ result' = "SUCCESS: user was renamed in Zoom."
         /\ pc' = "update_license"

\* lines 211-220: the status of the email PUT sets result, and control goes
\* on to the license step in both cases
RenameChecked(status) ==
    /\ result' = IF status # 204
                 THEN "ERROR: could not rename Zoom user."
                 ELSE "SUCCESS: user was renamed in Zoom."
    /\ pc' = "update_license"

\* lines 207-220, with the handler of lines 223-228
UpdateEmail ==
    /\ pc = "update_email"
    /\ \E resp \in WriteResponses :
        /\ reqs' = Append(reqs,
                Request("PUT", "users/" \o id \o "/email", headers,
                        << <<"email", Upn(row.newusername)>> >>, resp))
        /\ IF resp.kind = "exc"
           THEN RenameFailed /\ UNCHANGED response
           ELSE /\ response' = resp.status
                /\ RenameChecked(resp.status)
    /\ UNCHANGED <<actions, idx, id, headers, currentPage, PagesLeft, rows,
                   stdout, tokens>>

\* lines 230-234
LicenseType_unlessFalse(loginDisabled) ==
    IF loginDisabled # "False" THEN "1" ELSE "2"

LicenseType(loginDisabled) == IF loginDisabled = "True" THEN "1" ELSE "2"

\* lines 230-264
UpdateLicense ==
    /\ pc = "update_license"
    /\ \E resp \in WriteResponses :
        /\ tokens' = generateToken
        /\ headers' = generateToken
        /\ reqs' = Append(reqs,
                Request("PATCH", "users/" \o id, generateToken,
                        << <<"type", LicenseType(row.loginDisabled)>> >>, resp))
        /\ IF resp.kind = "exc"
           THEN Return("ERROR: Could not update Zoom user.") /\ UNCHANGED response
           ELSE /\ response' = resp.status
                /\ IF resp.status # 204
                   THEN Return("ERROR: could not update Zoom user.")
                   ELSE Return("SUCCESS: user was updated in Zoom.")
    /\ UNCHANGED <<actions, idx, id, currentPage, PagesLeft, rows, stdout>>

(* ---------------------------- listusers --------------------------------- *)
HeaderLine == "id,first_name,last_name,email,type,status"

\* lines 350-352
UserLine(user) ==
    user.id \o "," \o user.first_name \o "," \o user.last_name \o ","
    \o user.email \o "," \o ToString(user.type) \o "," \o user.status

\* line 355
NextPagesLeft_offByOne(jsondata) ==
    jsondata.page_count - (jsondata.page_number + 1)

NextPagesLeft(jsondata) == jsondata.page_count - jsondata.page_number

\* lines 324-331
ListStart ==
    /\ pc = "listusers"
    /\ tokens' = generateToken
    /\ headers' = generateToken
    /\ currentPage' = 1
    /\ PagesLeft' = 1
    /\ pc' = "listusers_page"
    /\ UNCHANGED <<actions, idx, result, id, response, rows, stdout, reqs>>

\* lines 338-342 without the break: the loop goes on to lines 357-358
ListBreak_noBreak(resp) ==
    /\ response' = resp.status
    /\ result' = "SUCCESS: got the list of Zoom users."
    /\ pc' = "listusers_page"
    /\ UNCHANGED <<stdout, currentPage, PagesLeft>>

\* lines 338-342: a status other than 200 sets the result and leaves the loop
ListBreak(resp) ==
    /\ response' = resp.status
    /\ Return("ERROR: did not get list of Zoom users.")
    /\ UNCHANGED <<stdout, currentPage, PagesLeft>>

\* lines 333-367: one turn of the while loop
ListPage ==
    /\ pc = "listusers_page"
    /\ PagesLeft # 0
    /\ currentPage <= MaxPages
    /\ \E resp \in PageResponses(currentPage) :
        /\ reqs' = Append(reqs,
                Request("GET", "users?page_size=300&page_number="
                               \o ToString(currentPage), headers, NoBody, resp))
        /\ IF resp.kind = "exc"
           THEN /\ Return("ERROR: Could not get the list of Zoom users.")
                /\ UNCHANGED <<response, stdout, currentPage, PagesLeft>>
           ELSE IF resp.status # 200
           THEN ListBreak(resp)
           ELSE IF ~resp.body.parses
           THEN /\ response' = resp.status
                /\ Return("ERROR: Could not get the list of Zoom users.")
                /\ UNCHANGED <<stdout, currentPage, PagesLeft>>
           ELSE LET jsondata == resp.body
                    left == NextPagesLeft(jsondata)
                IN  /\ response' = resp.status
                    /\ stdout' = (IF currentPage = 1
                                  THEN Append(stdout, HeaderLine) ELSE stdout)
                                 \o [k \in 1..Len(jsondata.users) |->
                                        UserLine(jsondata.users[k])]
                    /\ currentPage' = currentPage + 1
                    /\ PagesLeft' = left
                    /\ result' = "SUCCESS: got the list of Zoom users."
                    /\ pc' = IF left # 0 THEN "listusers_page" ELSE "writerow"
    /\ UNCHANGED <<actions, idx, id, headers, rows, tokens>>

Next ==
    \/ Dispatch
    \/ WriteRow
    \/ Finish
    \/ UpdateValidate
    \/ UpdateResolve
    \/ UpdateTaken
    \/ UpdateName
    \/ UpdateEmail
    \/ UpdateLicense
    \/ DeleteValidate
    \/ DeleteResolve
    \/ DeleteRequest
    \/ ListStart
    \/ ListPage

Spec == Init /\ [][Next]_vars

(* ======================== properties ==================================== *)
IsError(r) == Len(r) >= 6 /\ SubSeq(r, 1, 6) = "ERROR:"

\* the batch run has ended, normally or in main's exception handler
Ended == pc \in {"done", "aborted"}

\* index of the action the locals, reqs and stdout belong to: the one being
\* handled, or the one just written when main is back at the loop head
Cur == IF pc \in {"loop", "done"} THEN idx - 1 ELSE idx

\* the handler of the action Cur has returned (its row may be written already)
Returned == Cur >= 1 /\ pc \in {"writerow", "loop", "done"}

\* the row of action Cur is in the output file
Written == Cur >= 1 /\ pc \in {"loop", "done"}

IsLookup(r, username) == r.method = "GET" /\ r.url = "users/" \o Upn(username)

IsMutating(r) == r.method \in {"PATCH", "PUT", "DELETE"}

IsLicensePatch(r) ==
    r.method = "PATCH" /\ Len(r.payload) >= 1 /\ r.payload[1][1] = "type"

IsNamePatch(r) ==
    r.method = "PATCH" /\ Len(r.payload) >= 1 /\ r.payload[1][1] = "first_name"

BadStatus(r, good) == r.resp.kind = "http" /\ r.resp.status # good

(* ---- C1 ---- *)
\* C1: when the batch run ends, the output holds exactly one data row per
\* input action, and the i-th row carries the action and the username of
\* the i-th input action.
C1_OneRowPerAction ==
    Ended =>
        /\ Len(rows) = Len(actions)
        /\ \A i \in 1..Len(actions) :
            i <= Len(rows) =>
                rows[i][1] = actions[i].action /\ rows[i][2] = actions[i].username

(* ---- C2 ---- *)
\* C2: a transport exception raised by any request of an action becomes an
\* ERROR result for that action, whose row is written, and the run goes on:
\* it is never ended by the exception.
C2_ExceptionBecomesErrorRow ==
    (Cur >= 1 /\ \E i \in 1..Len(reqs) : reqs[i].resp.kind = "exc") =>
        /\ Returned
        /\ IsError(result)
        /\ Written => rows[Cur] = <<actions[Cur].action, actions[Cur].username, result>>

(* ---- C3 ---- *)
\* C3: in an update that renames, a name PATCH or an email PUT answered with
\* a status other than 204 makes the result of the action an ERROR result,
\* whatever the license call returns.
C3_RenameFailureIsError ==
    (/\ Returned
     /\ actions[Cur].action = "update"
     /\ \E i \in 1..Len(reqs) :
            /\ IsNamePatch(reqs[i]) \/ reqs[i].method = "PUT"
            /\ BadStatus(reqs[i], 204))
    => IsError(result)

(* ---- C4 ---- *)
\* C4: an update with at least one of its five fields empty sends no request
\* at all and ends with exactly the missing-value error naming one of the
\* empty fields.
C4_MissingFieldNoRequest ==
    (/\ Cur >= 1
     /\ pc # "update"
     /\ actions[Cur].action = "update"
     /\ \E f \in Fields : actions[Cur][f] = "")
    => /\ reqs = <<>>
       /\ Returned
       /\ \E f \in Fields :
            /\ actions[Cur][f] = ""
            /\ result = "ERROR: Missing an expected input value for "
                            \o f \o " in input file."
       /\ Written => rows[Cur][3] = result

\* an update with several empty fields was answered by naming the last
\* parameter, sn
C4_Witness ==
    /\ Written
    /\ actions[Cur].action = "update"
    /\ actions[Cur].username = "" /\ actions[Cur].sn = ""
    /\ rows[Cur][3] = "ERROR: Missing an expected input value for sn in input file."
    /\ reqs = <<>>

(* ---- C5 ---- *)
\* C5: in an update whose newusername differs from username, once the lookup
\* of newusername has returned an id, that lookup is the last request of the
\* action (no name PATCH, no email PUT, no license PATCH) and the result is
\* `ERROR: username already taken!`.
C5_TakenNameStops ==
    \A i \in 1..Len(reqs) :
        (/\ Cur >= 1
         /\ actions[Cur].action = "update"
         /\ actions[Cur].username # actions[Cur].newusername
         /\ IsLookup(reqs[i], actions[Cur].newusername)
         /\ findUserId(Upn(actions[Cur].newusername), reqs[i].resp)
                \notin {PyFalse, Raised, ""})
        => /\ i = Len(reqs)
           /\ \A j \in 1..Len(reqs) : ~IsMutating(reqs[j])
           /\ Returned
           /\ result = "ERROR: username already taken!"
           /\ Written => rows[Cur][3] = result

C5_Witness ==
    /\ Written
    /\ actions[Cur].action = "update"
    /\ Len(reqs) = 2
    /\ IsLookup(reqs[2], actions[Cur].newusername)
    /\ reqs[2].resp.status = 200
    /\ rows[Cur][3] = "ERROR: username already taken!"

(* ---- C6 ---- *)
\* C6: a delete whose lookup of username returns no id (False or an empty
\* id) sends no DELETE request and ends with
\* `ERROR: user could not be found in Zoom!`.
C6_DeleteUnknownUser ==
    (/\ Cur >= 1
     /\ actions[Cur].action = "delete"
     /\ Len(reqs) >= 1
     /\ findUserId(Upn(actions[Cur].username), reqs[1].resp) \in {PyFalse, ""})
    => /\ Len(reqs) = 1
       /\ IsLookup(reqs[1], actions[Cur].username)
       /\ Returned
       /\ result = "ERROR: user could not be found in Zoom!"
       /\ Written => rows[Cur][3] = result

C6_Witness ==
    /\ Written
    /\ actions[Cur].action = "delete"
    /\ Len(reqs) = 1
    /\ reqs[1].resp.status = 404
    /\ rows[Cur][3] = "ERROR: user could not be found in Zoom!"

(* ---- C7 ---- *)
\* C7: no token is attached to two different requests.
C7_FreshTokenPerRequest ==
    \A i, j \in 1..Len(reqs) : i # j => reqs[i].token # reqs[j].token

(* ---- C8 ---- *)
\* C8: the license PATCH of an update carries exactly the payload
\* {"type": "1"} when loginDisabled is "True" and {"type": "2"} for every
\* other value; an update that got past its license step has sent it, as
\* its last request.
C8_LicenseTypeMapping ==
    /\ \A i \in 1..Len(reqs) :
        IsLicensePatch(reqs[i]) =>
            /\ actions[Cur].action = "update"
            /\ i = Len(reqs)
            /\ (actions[Cur].loginDisabled = "True")
                    => reqs[i].payload = << <<"type", "1">> >>
            /\ (actions[Cur].loginDisabled # "True")
                    => reqs[i].payload = << <<"type", "2">> >>
    /\ (/\ Returned
        /\ result \in {"SUCCESS: user was updated in Zoom.",
                       "ERROR: could not update Zoom user.",
                       "ERROR: Could not update Zoom user."})
       => Len(reqs) >= 1 /\ IsLicensePatch(reqs[Len(reqs)])

\* a license PATCH was sent for loginDisabled = "true", which is not "True"
C8_Witness ==
    /\ Returned
    /\ actions[Cur].loginDisabled = "true"
    /\ Len(reqs) >= 1
    /\ reqs[Len(reqs)].payload = << <<"type", "2">> >>

(* ---- C9 ---- *)
\* every page request sent so far was answered with status 200,
\* page_count = n and the page_number that was requested
WellPaged(n) ==
    \A i \in 1..Len(reqs) :
        /\ reqs[i].resp.kind = "http"
        /\ reqs[i].resp.status = 200
        /\ reqs[i].resp.body.parses
        /\ reqs[i].resp.body.page_count = n
        /\ reqs[i].resp.body.page_number = i

RECURSIVE LinesOfPages(_)
\* the data lines of the users of the first k answers, in order
LinesOfPages(k) ==
    IF k = 0 THEN <<>>
    ELSE LET users == reqs[k].resp.body.users
         IN  LinesOfPages(k - 1)
             \o [u \in 1..Len(users) |->
                    users[u].id \o "," \o users[u].first_name \o ","
                    \o users[u].last_name \o "," \o users[u].email \o ","
                    \o ToString(users[u].type) \o "," \o users[u].status]

C10_UnrecognizedAction ==
    (/\ Cur >= 1
     /\ actions[Cur].action \notin {"update", "delete", "listusers"})
    => /\ reqs = <<>>
       /\ stdout = <<>>
       /\ Returned
       /\ result = "ERROR: Unrecognized action."
       /\ Written =>
            rows[Cur] = <<actions[Cur].action, actions[Cur].username,
                          "ERROR: Unrecognized action.">>

\* the action after an unrecognized one is being handled
C10_Witness ==
    /\ idx = 2
    /\ pc \in {"update_resolve", "delete_resolve", "listusers_page"}
    /\ actions[1].action = "create"
    /\ rows = << <<"create", actions[1].username, "ERROR: Unrecognized action.">> >>

(* ---- C11 ---- *)
\* C11: in an update that renames, a license PATCH is sent only after a
\* name PATCH and an email PUT that were both answered with status 204.
C11_LicenseOnlyAfterRename ==
    \A i \in 1..Len(reqs) :
        (/\ IsLicensePatch(reqs[i])
         /\ actions[Cur].username # actions[Cur].newusername)
        => /\ i = 5
           /\ IsNamePatch(reqs[3]) /\ ~BadStatus(reqs[3], 204)
           /\ reqs[4].method = "PUT" /\ ~BadStatus(reqs[4], 204)

(* ---- C12 ---- *)
\* C12: an update or delete that has sent any request has all its required
\* fields non-empty (the five fields for update, username for delete) and
\* its first request is the lookup of its username; every PATCH, PUT or
\* DELETE it sends comes after that lookup was answered with status 200 and
\* a body whose first field is a non-empty id, and is addressed to that id.
C12_ValidateResolveThenMutate ==
    (/\ Cur >= 1
     /\ actions[Cur].action \in {"update", "delete"}
     /\ reqs # <<>>)
    => /\ actions[Cur].username # ""
       /\ actions[Cur].action = "update" =>
            \A f \in Fields : actions[Cur][f] # ""
       /\ IsLookup(reqs[1], actions[Cur].username)
       /\ \A i \in 1..Len(reqs) :
            IsMutating(reqs[i]) =>
                /\ i > 1
                /\ reqs[1].resp.kind = "http"
                /\ reqs[1].resp.status = 200
                /\ reqs[1].resp.body[1][1] = "id"
                /\ reqs[1].resp.body[1][2] # ""
                /\ reqs[i].url \in
                        {"users/" \o reqs[1].resp.body[1][2],
                         "users/" \o reqs[1].resp.body[1][2] \o "/email"}

\* a DELETE was sent to the id the lookup returned
C12_Witness ==
    /\ Returned
    /\ actions[Cur].action = "delete"
    /\ Len(reqs) = 2
    /\ reqs[2].method = "DELETE"
    /\ reqs[2].url = "users/u1"
    /\ reqs[1].resp.body[1][2] = "u1"

(* ---- C13 ---- *)
\* every page request sent so far was answered with status 200, some
\* page_count >= 0 and the page_number that was requested
PagedAsRequested ==
    \A i \in 1..Len(reqs) :
        /\ reqs[i].resp.kind = "http"
        /\ reqs[i].resp.status = 200
        /\ reqs[i].resp.body.parses
        /\ reqs[i].resp.body.page_count >= 0
        /\ reqs[i].resp.body.page_number = i

\* C13: against a server that answers every page request with status 200, a
\* page_count >= 0 and the requested page_number, listusers stops paging as
\* soon as an answer reports no page beyond the one just read
\* (page_count <= page_number, which includes page_count = 0): that answer is
\* the last request and the handler has returned. This is what bounds the
\* number of page requests by the page_count the server reports.
C13_ListusersTerminates ==
    (/\ Cur >= 1
     /\ actions[Cur].action = "listusers"
     /\ PagedAsRequested)
    => \A i \in 1..Len(reqs) :
            reqs[i].resp.body.page_count <= i => (i = Len(reqs) /\ Returned)

(* ---- C14 ---- *)
\* C14: in an update that renames, a request of the rename step (lookup of
\* newusername, name PATCH, email PUT) that raises an exception is the last
\* request of the action: no license PATCH is sent, and the action returns
\* an ERROR result.
C14_RenameExceptionStops ==
    \A i \in 1..Len(reqs) :
        (/\ Cur >= 1
         /\ actions[Cur].action = "update"
         /\ i >= 2
         /\ reqs[i].resp.kind = "exc"
         /\ \/ IsLookup(reqs[i], actions[Cur].newusername)
            \/ IsNamePatch(reqs[i])
            \/ reqs[i].method = "PUT")
        => /\ i = Len(reqs)
           /\ \A j \in 1..Len(reqs) : ~IsLicensePatch(reqs[j])
           /\ Returned
           /\ IsError(result)
           /\ Written => rows[Cur][3] = result

\* the email PUT raised after the name PATCH had succeeded
C14_Witness ==
    /\ Written
    /\ Len(reqs) = 4
    /\ reqs[3].resp.status = 204
    /\ reqs[4].method = "PUT"
    /\ reqs[4].resp.kind = "exc"
    /\ rows[Cur][3] = "ERROR: Could not rename Zoom user."

(* ---- C15 ---- *)
\* C15: in listusers, a page answer with a status other than 200 is the last
\* request of the action; the handler has returned
\* `ERROR: did not get list of Zoom users.`, and what it has printed is still
\* what the earlier pages produced: nothing if the first page failed, else
\* the header line and the data lines of the pages before.
C15_BadPageStopsListing ==
    \A i \in 1..Len(reqs) :
        (/\ Cur >= 1
         /\ actions[Cur].action = "listusers"
         /\ BadStatus(reqs[i], 200))
        => /\ i = Len(reqs)
           /\ Returned
           /\ result = "ERROR: did not get list of Zoom users."
           /\ stdout = IF i = 1 THEN <<>>
                       ELSE <<"id,first_name,last_name,email,type,status">>
                            \o LinesOfPages(i - 1)
           /\ Written => rows[Cur][3] = result

\* the second page failed after the first had been printed
C15_Witness ==
    /\ Written
    /\ actions[Cur].action = "listusers"
    /\ Len(reqs) = 2
    /\ BadStatus(reqs[2], 200)
    /\ Len(stdout) >= 2
    /\ rows[Cur][3] = "ERROR: did not get list of Zoom users."

(* ---- C16 ---- *)
\* the results of validation, resolve, name conflict and dispatch failures
SpecificErrors ==
    {"ERROR: Missing an expected input value for " \o f \o " in input file." :
        f \in Fields}
    \cup {"ERROR: user could not be found in Zoom!",
          "ERROR: username already taken!",
          "ERROR: Unrecognized action."}

GenericError(r) == IsError(r) /\ r \notin SpecificErrors

\* C16 as claimed: all the generic error results written for actions of one
\* kind are one and the same string.
C16_SingleGenericError ==
    \A i, j \in 1..Len(rows) :
        (/\ rows[i][1] = rows[j][1]
         /\ GenericError(rows[i][3])
         /\ GenericError(rows[j][3]))
        => rows[i][3] = rows[j][3]

\* C16 as amended: when a handler returns because its last request failed,
\* and that request is not the lookup of username, the result is fixed by
\* the action kind, the failing step and the way it failed:
\*   delete     non-204 DELETE            ERROR: could not delete user in Zoom.
\*              exception                 ERROR: Could not delete Zoom user.
\*   listusers  non-200 page              ERROR: did not get list of Zoom users.
\*              exception, bad JSON       ERROR: Could not get the list of Zoom users.
\*   update     non-204 license PATCH     ERROR: could not update Zoom user.
\*              exception in it           ERROR: Could not update Zoom user.
\*              exception while renaming  ERROR: Could not rename Zoom user.
\* and every generic error result is one of these seven.
C16_ErrorPerStepAndCause ==
    /\ (/\ Returned
        /\ reqs # <<>>)
       => LET last == reqs[Len(reqs)]
              kind == actions[Cur].action
              exc == last.resp.kind = "exc"
          IN  /\ (kind = "delete" /\ last.method = "DELETE") =>
                    /\ exc => result = "ERROR: Could not delete Zoom user."
                    /\ BadStatus(last, 204)
                            => result = "ERROR: could not delete user in Zoom."
              /\ kind = "listusers" =>
                    /\ exc => result = "ERROR: Could not get the list of Zoom users."
                    /\ BadStatus(last, 200)
                            => result = "ERROR: did not get list of Zoom users."
                    /\ (~exc /\ last.resp.status = 200 /\ ~last.resp.body.parses)
                            => result = "ERROR: Could not get the list of Zoom users."
              /\ (kind = "update" /\ IsLicensePatch(last)) =>
                    /\ exc => result = "ERROR: Could not update Zoom user."
                    /\ BadStatus(last, 204)
                            => result = "ERROR: could not update Zoom user."
              /\ (kind = "update" /\ Len(reqs) >= 2 /\ ~IsLicensePatch(last) /\ exc)
                    => result = "ERROR: Could not rename Zoom user."
    /\ (Returned /\ GenericError(result)) =>
            result \in {"ERROR: Could not delete Zoom user.",
                        "ERROR: could not delete user in Zoom.",
                        "ERROR: Could not get the list of Zoom users.",
                        "ERROR: did not get list of Zoom users.",
                        "ERROR: Could not update Zoom user.",
                        "ERROR: could not update Zoom user.",
                        "ERROR: Could not rename Zoom user."}

\* two deletes of one batch failed in the two ways and got the two messages
C16_Witness ==
    /\ Len(rows) = 2
    /\ rows[1] = <<"delete", "a", "ERROR: Could not delete Zoom user.">>
    /\ rows[2] = <<"delete", "a", "ERROR: could not delete user in Zoom.">>

(* ---- C17 ---- *)
\* C17: update and delete hold an id only if the lookup of username was
\* answered with status 200 and a body that contains the address and starts
\* with the id field; a lookup answered with any other status (404 or not,
\* with or without a body) is the only request of the action, which returns
\* `ERROR: user could not be found in Zoom!`.
C17_IdOnlyFromStatus200 ==
    (/\ Cur >= 1
     /\ actions[Cur].action \in {"update", "delete"}
     /\ reqs # <<>>)
    => /\ (id \notin {PyFalse, ""}) =>
            /\ reqs[1].resp.kind = "http"
            /\ reqs[1].resp.status = 200
            /\ \E k \in 1..Len(reqs[1].resp.body) :
                    reqs[1].resp.body[k][2] = actions[Cur].username \o "@xyz.com"
            /\ reqs[1].resp.body[1] = <<"id", id>>
       /\ BadStatus(reqs[1], 200) =>
            /\ Len(reqs) = 1
            /\ id = PyFalse
            /\ Returned
            /\ result = "ERROR: user could not be found in Zoom!"
            /\ Written => rows[Cur][3] = result

\* a lookup answered 500 with the body of a user ended an update
C17_Witness ==
    /\ Written
    /\ actions[Cur].action = "update"
    /\ Len(reqs) = 1
    /\ reqs[1].resp.status = 500
    /\ reqs[1].resp.body # <<>>
    /\ rows[Cur][3] = "ERROR: user could not be found in Zoom!"

(* ---- C18 ---- *)
\* C18: at every point of a run, also after it was ended by an exception,
\* the data rows written are the rows of the actions before the one the
\* loop is at, one each and in input order: row i carries the action and
\* the username of input action i, and there is no row yet for the action
\* being handled.
C18_RowsArePrefix ==
    /\ Len(rows) = idx - 1
    /\ Len(rows) <= Len(actions)
    /\ \A i \in 1..Len(rows) :
        /\ rows[i][1] = actions[i].action
        /\ rows[i][2] = actions[i].username

\* the run was ended by an exception in its second action, after the row of
\* the first had been written
C18_Witness ==
    /\ pc = "aborted"
    /\ idx = 2
    /\ Len(rows) = 1
    /\ rows[1][1] = actions[1].action

(* ---- C19 ---- *)
RenameResults ==
    {"SUCCESS: user was renamed in Zoom.", "ERROR: could not rename Zoom user."}

\* C19: the result of an update whose last request is the license PATCH is
\* `SUCCESS: user was updated in Zoom.` exactly when that PATCH was answered
\* with status 204, whatever the rename calls before it returned; and the
\* two results of the rename step are never the result a handler returns
\* nor the result of a row.
C19_LicenseAloneDecides ==
    /\ (/\ Returned
        /\ actions[Cur].action = "update"
        /\ reqs # <<>>
        /\ IsLicensePatch(reqs[Len(reqs)]))
       => (result = "SUCCESS: user was updated in Zoom."
            <=> (/\ reqs[Len(reqs)].resp.kind = "http"
                 /\ reqs[Len(reqs)].resp.status = 204))
    /\ Returned => result \notin RenameResults
    /\ \A i \in 1..Len(rows) : rows[i][3] \notin RenameResults

\* a rename whose email PUT was refused was written as a success
C19_Witness ==
    /\ Written
    /\ Len(reqs) = 5
    /\ reqs[4].method = "PUT"
    /\ reqs[4].resp.status = 404
    /\ reqs[5].resp.status = 204
    /\ rows[Cur][3] = "SUCCESS: user was updated in Zoom."

(* ---- C20 ---- *)
\* C20: an update whose newusername equals username sends at most two
\* requests: the lookup of username and, if that returned an id, one PATCH
\* whose payload is the type field alone. No request carries givenName, sn
\* or an email, and no PUT is sent; once the handler has returned with the
\* user found, the PATCH has been sent.
C20_NoRenameOnlyLicense ==
    (/\ Cur >= 1
     /\ actions[Cur].action = "update"
     /\ actions[Cur].newusername = actions[Cur].username)
    => /\ Len(reqs) <= 2
       /\ \A i \in 1..Len(reqs) :
            /\ reqs[i].method \in {"GET", "PATCH"}
            /\ reqs[i].method = "GET" => i = 1 /\ reqs[i].payload = <<>>
            /\ reqs[i].method = "PATCH" =>
                /\ i = 2
                /\ Len(reqs[i].payload) = 1
                /\ reqs[i].payload[1][1] = "type"
       /\ (/\ Returned
           /\ reqs # <<>>
           /\ result # "ERROR: user could not be found in Zoom!")
          => Len(reqs) = 2 /\ reqs[2].method = "PATCH"

\* an update without rename was done with a lookup and one PATCH
C20_Witness ==
    /\ Written
    /\ actions[Cur].action = "update"
    /\ actions[Cur].newusername = actions[Cur].username
    /\ Len(reqs) = 2
    /\ reqs[2].payload = << <<"type", "1">> >>
    /\ rows[Cur][3] = "SUCCESS: user was updated in Zoom."

====
